---- MODULE Spec2Model ----
(***************************************************************************)
(* Model of the feature-construction and recursive-forecast engine of the  *)
(* repository: src/src/features.py (hourly grid, lag selection, feature    *)
(* table, time split), src/src/model.py (recursive forecast, anchor row)   *)
(* and src/scripts/run_model.py (the run that labels and saves a forecast).*)
(*                                                                         *)
(* Conventions                                                             *)
(*   - a timestamp is an integer number of ticks since the epoch; one hour *)
(*     is TicksPerHour ticks, so timestamps off the hour boundary exist;   *)
(*   - a float is an integer (targets and predictions are non-negative,    *)
(*     the cyclic encodings are in thousandths); NaN is the missing marker *)
(*     of pandas/numpy, a value no target or prediction takes;             *)
(*   - a data frame is a sequence of rows (records), in row order;         *)
(*   - a column name is the sequence of its "_"-separated tokens, that is  *)
(*     what c.split("_") returns: target_lag_24 is <<"target","lag","24">>.*)
(***************************************************************************)
EXTENDS Integers, Sequences, FiniteSets, TLC

VARIABLES
    pc,             \* position of the running call
    err,            \* exception raised by the call ("none" when none)
    raw,            \* ensure_hourly_index / build_features_pipeline: input frame
    method_fill,    \* ensure_hourly_index: fill policy
    ensured,        \* ensure_hourly_index: returned frame
    table,          \* train_val_split_time: input frame
    val_hours,      \* train_val_split_time: validation span in hours
    train,          \* train_val_split_time: first returned frame
    val,            \* train_val_split_time: second returned frame
    lags,           \* build_features_pipeline: requested lags, as set(lags)
    min_train_rows, \* build_features_pipeline: rows to keep for training
    valid_lags,     \* build_features_pipeline: lags finally used, ascending
    feat,           \* build_features_pipeline: returned feature table
    log,            \* records written to the module logger
    estimator,      \* make_recursive_forecast: the fitted model
    last_features_row, \* make_recursive_forecast: anchor row (a Series)
    feature_cols,   \* make_recursive_forecast: columns the model expects, in order
    horizon,        \* make_recursive_forecast: number of steps asked for
    cur,            \* make_recursive_forecast: working copy of the anchor row
    lag_cols,       \* make_recursive_forecast: lag columns, ascending lag number
    step,           \* make_recursive_forecast: loop iterations completed
    preds,          \* make_recursive_forecast: predictions collected so far
    calls,          \* the estimator's record of the predict calls it received
    out,            \* make_recursive_forecast: returned frame
    main_pc,        \* run_model.main: position of the script ("idle": not running)
    forecast_df     \* run_model.main: the forecast table that is saved

gridVars == <<raw, method_fill, ensured>>
splitVars == <<table, val_hours, train, val>>

pipeVars == <<lags, min_train_rows, valid_lags, feat, log>>

fcVars == <<estimator, last_features_row, feature_cols, horizon, cur, lag_cols,
            step, preds, calls, out>>

runVars == <<main_pc, forecast_df>>

vars == <<pc, err, gridVars, splitVars, pipeVars, fcVars, runVars>>

----------------------------------------------------------------------------
(* Bounds of the model *)

TicksPerHour == 2
MaxTick == 5
MaxObs == 3
MaxValHours == 3
MaxRows == 6
MaxSmallLag == 3
MaxMinTrain == 4
MaxForecastSmallLag == 2
MaxHorizon == 3

(* Program constants *)

NaN == -1
ScenarioHours == 50
ScenarioDropA == 5
ScenarioDropB == 10
DefaultLagDay == 24
DefaultLagWeek == 168
DefaultMinTrainRows == 48
HoursPerDay == 24
DefaultHorizon == 6
Unparsable == 999999

Hour == TicksPerHour

Ticks == 0..MaxTick

ValueAt(t) == 100 + t

----------------------------------------------------------------------------
(* Generic helpers on sequences of rows *)

Max(S) == CHOOSE x \in S : \A y \in S : y <= x
Min(S) == CHOOSE x \in S : \A y \in S : x <= y

Range(s) == {s[i] : i \in 1..Len(s)}

Datetimes(df) == {df[i].datetime : i \in 1..Len(df)}

(* df.sort_values("datetime"): ascending, rows of equal datetime in their   *)
(* input order. The rows with datetime in lo..hi are sorted by sorting      *)
(* those of the lower half of the interval, then those of the upper half.   *)
RECURSIVE SortBetween(_, _, _)
SortBetween(df, lo, hi) ==
    IF df = <<>> \/ lo = hi THEN df
    ELSE LET mid == (lo + hi) \div 2
         IN SortBetween(SelectSeq(df, LAMBDA r : r.datetime <= mid), lo, mid)
            \o SortBetween(SelectSeq(df, LAMBDA r : r.datetime > mid), mid + 1, hi)

sort_values(df) ==
    IF df = <<>> THEN <<>>
    ELSE SortBetween(df, Min(Datetimes(df)), Max(Datetimes(df)))

HasDuplicates(df) == Cardinality(Datetimes(df)) # Len(df)

----------------------------------------------------------------------------
(* ensure_hourly_index *)

floor_to_hour(t) == t - (t % Hour)
ceil_to_hour_truncating(t) == t - (t % Hour)

ceil_to_hour(t) == IF t % Hour = 0 THEN t ELSE t - (t % Hour) + Hour

date_range(start, end) ==
    [i \in 1..((end - start) \div Hour + 1) |-> start + (i - 1) * Hour]

reindex(df, idx) ==
    [i \in 1..Len(idx) |->
        [datetime |-> idx[i],
         target   |-> IF idx[i] \in Datetimes(df)
                      THEN (CHOOSE r \in Range(df) : r.datetime = idx[i]).target
                      ELSE NaN]]

ffill_from_next(col) ==
    LET n == Len(col)
        f[i \in 1..(n + 1)] ==
            IF i = n + 1 THEN NaN
            ELSE IF col[i] # NaN THEN col[i] ELSE f[i + 1]
    IN [i \in 1..n |-> f[i]]

ffill(col) ==
    LET f[i \in 0..Len(col)] ==
            IF i = 0 THEN NaN
            ELSE IF col[i] # NaN THEN col[i] ELSE f[i - 1]
    IN [i \in 1..Len(col) |-> f[i]]

bfill(col) ==
    LET n == Len(col)
        f[i \in 1..(n + 1)] ==
            IF i = n + 1 THEN NaN
            ELSE IF col[i] # NaN THEN col[i] ELSE f[i + 1]
    IN [i \in 1..n |-> f[i]]

(* Linear interpolation over the row positions, limit_direction="both": an   *)
(* interior gap is interpolated between its two neighbours, a leading gap    *)
(* takes the first valid value and a trailing gap the last valid value.      *)
(* Values are integers, so an interpolated value is truncated to the unit.   *)
interpolate(col) ==
    LET n == Len(col)
        valid == {i \in 1..n : col[i] # NaN}
    IN [i \in 1..n |->
            IF col[i] # NaN \/ valid = {} THEN col[i]
            ELSE LET before == {j \in valid : j < i}
                     after  == {j \in valid : j > i}
                 IN IF before = {} THEN col[Min(after)]
                    ELSE IF after = {} THEN col[Max(before)]
                    ELSE LET a == Max(before)
                             b == Min(after)
                         IN col[a] + ((col[b] - col[a]) * (i - a)) \div (b - a)]

FillMethods == {"ffill", "bfill", "interpolate", "None"}

fill(col, method) ==
    CASE method = "ffill"       -> ffill(col)
      [] method = "bfill"       -> bfill(col)
      [] method = "interpolate" -> interpolate(col)
      [] OTHER                  -> col

TargetCol(df) == [i \in 1..Len(df) |-> df[i].target]

WithTarget(df, col) ==
    [i \in 1..Len(df) |-> [df[i] EXCEPT !.target = col[i]]]

(* The exception the call raises, "none" if it returns. *)
ensure_hourly_index_error(df, method) ==
    IF df = <<>> THEN "ValueError"               \* date_range(NaT, NaT)
    ELSE IF HasDuplicates(df) THEN "ValueError"  \* reindex on duplicate labels
    ELSE IF method \notin FillMethods THEN "ValueError"
    ELSE "none"

full_idx(df) ==
    date_range(floor_to_hour(Min(Datetimes(df))), ceil_to_hour(Max(Datetimes(df))))

ensure_hourly_index(df, method) ==
    LET sorted == sort_values(df)
        grid   == reindex(sorted, full_idx(sorted))
    IN WithTarget(grid, fill(TargetCol(grid), method))

----------------------------------------------------------------------------
(* Inputs *)

RawRows == {[datetime |-> t, target |-> v] : t \in Ticks, v \in {NaN}} \cup
           {[datetime |-> t, target |-> ValueAt(t)] : t \in Ticks}

SeqsUpTo(S, n) == UNION {[1..k -> S] : k \in 0..n}

(* tests/test_features.py: 50 hourly points, rows 5 and 10 dropped *)
ScenarioRaw ==
    LET kept == [i \in 1..(ScenarioHours - 2) |->
                    IF i <= ScenarioDropA THEN i - 1
                    ELSE IF i <= ScenarioDropB - 1 THEN i
                    ELSE i + 1]
    IN [i \in 1..(ScenarioHours - 2) |->
            [datetime |-> kept[i] * Hour, target |-> ValueAt(kept[i] * Hour)]]

GridInputs == SeqsUpTo(RawRows, MaxObs) \cup {ScenarioRaw}

----------------------------------------------------------------------------
(* Specification of one call of ensure_hourly_index *)

SplitIdle ==
    /\ table = <<>>
    /\ val_hours = 0
    /\ train = <<>>
    /\ val = <<>>

PipeIdle ==
    /\ lags = {}
    /\ min_train_rows = 0
    /\ valid_lags = <<>>
    /\ feat = <<>>
    /\ log = <<>>

RunIdle ==
    /\ main_pc = "idle"
    /\ forecast_df = <<>>

ForecastIdle ==
    /\ estimator = [kind |-> "const", c |-> 0, fail_at |-> 0, exc |-> "none"]
    /\ last_features_row = <<>>
    /\ feature_cols = <<>>
    /\ horizon = 0
    /\ cur = <<>>
    /\ lag_cols = <<>>
    /\ step = 0
    /\ preds = <<>>
    /\ calls = <<>>
    /\ out = <<>>

GridInit ==
    /\ pc = "grid_call"
    /\ err = "none"
    /\ RunIdle
    /\ SplitIdle
    /\ PipeIdle
    /\ ForecastIdle
    /\ raw \in GridInputs
    /\ method_fill \in FillMethods \cup {"other"}
    /\ ensured = <<>>

EnsureHourlyIndexRaise ==
    /\ pc = "grid_call"
    /\ ensure_hourly_index_error(raw, method_fill) # "none"
    /\ pc' = "grid_raised"
    /\ err' = ensure_hourly_index_error(raw, method_fill)
    /\ UNCHANGED <<runVars, raw, method_fill, ensured, splitVars, pipeVars, fcVars>>

EnsureHourlyIndex ==
    /\ pc = "grid_call"
    /\ ensure_hourly_index_error(raw, method_fill) = "none"
    /\ pc' = "grid_done"
    /\ ensured' = ensure_hourly_index(raw, method_fill)
    /\ UNCHANGED <<runVars, err, raw, method_fill, splitVars, pipeVars, fcVars>>

GridNext == EnsureHourlyIndex \/ EnsureHourlyIndexRaise

SpecGrid == GridInit /\ [][GridNext]_vars

----------------------------------------------------------------------------
(* Properties of ensure_hourly_index *)

OnHourObservation(df, t) ==
    \E r \in Range(df) : r.datetime = t /\ r.target # NaN

ObservedAt(df, t) ==
    (CHOOSE r \in Range(df) : r.datetime = t /\ r.target # NaN).target

(* C1: for a non-empty input with distinct timestamps, whatever its order   *)
(* and whichever fill policy, the returned grid starts at the hour boundary *)
(* at or below the smallest timestamp, ends at the hour boundary at or      *)
(* above the largest, advances by exactly one hour from row to row, and has *)
(* (end - start)/1h + 1 rows.                                               *)
GridContinuity ==
    (pc = "grid_done") =>
        LET lo == Min(Datetimes(raw))
            hi == Max(Datetimes(raw))
            n  == Len(ensured)
        IN /\ n >= 1
           /\ ensured[1].datetime % Hour = 0
           /\ ensured[1].datetime <= lo
           /\ lo < ensured[1].datetime + Hour
           /\ ensured[n].datetime % Hour = 0
           /\ ensured[n].datetime >= hi
           /\ hi > ensured[n].datetime - Hour
           /\ \A i \in 1..(n - 1) :
                  ensured[i + 1].datetime = ensured[i].datetime + Hour
           /\ n = (ensured[n].datetime - ensured[1].datetime) \div Hour + 1

GridContinuityWitness ==
    /\ pc = "grid_done"
    /\ Len(raw) = MaxObs
    /\ raw[1].datetime > raw[2].datetime
    /\ Min(Datetimes(raw)) % Hour # 0
    /\ Max(Datetimes(raw)) % Hour # 0
    /\ Len(ensured) >= 3

(* C2: under forward fill a grid hour with an observation on that hour      *)
(* keeps it, a grid hour without one takes the value of the nearest earlier *)
(* grid hour that has one, and grid hours before the first on-the-hour      *)
(* observation stay missing; the 50-point series with rows 5 and 10 removed *)
(* gives 50 rows, each filled row equal to its predecessor.                 *)
ForwardFillCorrect ==
    (pc = "grid_done" /\ method_fill = "ffill") =>
        /\ \A i \in 1..Len(ensured) :
              LET t       == ensured[i].datetime
                  earlier == {j \in 1..i : OnHourObservation(raw, ensured[j].datetime)}
              IN IF OnHourObservation(raw, t)
                 THEN ensured[i].target = ObservedAt(raw, t)
                 ELSE IF earlier # {}
                      THEN ensured[i].target =
                               ObservedAt(raw, ensured[Max(earlier)].datetime)
                      ELSE ensured[i].target = NaN
        /\ (raw = ScenarioRaw) =>
              /\ Len(ensured) = ScenarioHours
              /\ ensured[ScenarioDropA + 1].target = ensured[ScenarioDropA].target
              /\ ensured[ScenarioDropB + 1].target = ensured[ScenarioDropB].target
              /\ ensured[ScenarioDropA].target # NaN
              /\ ensured[ScenarioDropB].target # NaN

ForwardFillWitness ==
    /\ pc = "grid_done"
    /\ method_fill = "ffill"
    /\ Len(ensured) >= 4
    /\ ensured[1].target = NaN
    /\ OnHourObservation(raw, ensured[2].datetime)
    /\ ~OnHourObservation(raw, ensured[3].datetime)
    /\ ensured[3].target = ensured[2].target
    /\ ensured[4].target = ensured[2].target

----------------------------------------------------------------------------
(* train_val_split_time *)

cutoff_from_earliest(df, hours) == Min(Datetimes(df)) + hours * Hour

cutoff(df, hours) == Max(Datetimes(df)) - hours * Hour

(* Rows of an empty frame compare against NaT: both parts come out empty. *)
split_train(df, hours) ==
    IF df = <<>> THEN <<>>
    ELSE LET at == cutoff(df, hours)
         IN SelectSeq(sort_values(df), LAMBDA r : r.datetime <= at)

split_val_overlapping(df, hours) ==
    IF df = <<>> THEN <<>>
    ELSE LET at == cutoff(df, hours)
         IN SelectSeq(sort_values(df), LAMBDA r : r.datetime >= at)

split_val(df, hours) ==
    IF df = <<>> THEN <<>>
    ELSE LET at == cutoff(df, hours)
         IN SelectSeq(sort_values(df), LAMBDA r : r.datetime > at)

SplitRows == {[datetime |-> t, target |-> ValueAt(t)] : t \in Ticks}

GridIdle ==
    /\ raw = <<>>
    /\ method_fill = "ffill"
    /\ ensured = <<>>

SplitInit ==
    /\ pc = "split_call"
    /\ err = "none"
    /\ RunIdle
    /\ GridIdle
    /\ PipeIdle
    /\ ForecastIdle
    /\ table \in SeqsUpTo(SplitRows, MaxObs)
    /\ val_hours \in -1..MaxValHours
    /\ train = <<>>
    /\ val = <<>>

TrainValSplitTime ==
    /\ pc = "split_call"
    /\ pc' = "split_done"
    /\ train' = split_train(table, val_hours)
    /\ val' = split_val(table, val_hours)
    /\ UNCHANGED <<runVars, err, gridVars, pipeVars, fcVars, table, val_hours>>

SplitNext == TrainValSplitTime

SpecSplit == SplitInit /\ [][SplitNext]_vars

(* C3: whenever both parts of the split are non-empty, every timestamp of   *)
(* the training part is strictly before every timestamp of the validation   *)
(* part: max(train.datetime) < min(val.datetime).                           *)
NoLeakage ==
    (pc = "split_done" /\ train # <<>> /\ val # <<>>) =>
        /\ Max(Datetimes(train)) < Min(Datetimes(val))
        /\ \A i \in 1..Len(train) : \A j \in 1..Len(val) :
               train[i].datetime < val[j].datetime

NoLeakageWitness ==
    /\ pc = "split_done"
    /\ Len(train) >= 2
    /\ val # <<>>
    /\ val_hours >= 1
    /\ table[1].datetime > table[2].datetime
    /\ Max(Datetimes(train)) = cutoff(table, val_hours)

SeriesSpan == Max(Datetimes(table)) - Min(Datetimes(table))

(* C12, as claimed: on a non-empty table the split does not raise, and when *)
(* val_hours exceeds the span of the series (max timestamp - min timestamp) *)
(* the part that comes out empty is val.                                    *)
EmptyValWhenSpanExceeded ==
    (pc = "split_done" /\ table # <<>>) =>
        /\ err = "none"
        /\ (val_hours * Hour > SeriesSpan) => val = <<>>

(* C12, amended: on a non-empty table the split does not raise and returns  *)
(* every row in exactly one part; when val_hours exceeds the span of the    *)
(* series the part that comes out empty is train and val holds every row;   *)
(* val comes out empty exactly when val_hours is not positive.              *)
EmptyTrainWhenSpanExceeded ==
    (pc = "split_done" /\ table # <<>>) =>
        /\ err = "none"
        /\ Len(train) + Len(val) = Len(table)
        /\ Range(train) \cup Range(val) = Range(table)
        /\ (val_hours * Hour > SeriesSpan) =>
               (train = <<>> /\ Len(val) = Len(table))
        /\ (val = <<>>) <=> (val_hours <= 0)

EmptyTrainWitness ==
    /\ pc = "split_done"
    /\ Len(table) >= 2
    /\ SeriesSpan >= Hour
    /\ val_hours * Hour > SeriesSpan
    /\ train = <<>>
    /\ Len(val) = Len(table)
    /\ err = "none"

----------------------------------------------------------------------------
(* Column names and frames keyed by column name *)

DatetimeCol == <<"datetime">>
TargetName == <<"target">>
HourCol == <<"hour">>
HourSinCol == <<"hour", "sin">>
HourCosCol == <<"hour", "cos">>
DayOfWeekCol == <<"dayofweek">>
MonthCol == <<"month">>
DayOfYearCol == <<"dayofyear">>
IsWeekendCol == <<"is", "weekend">>

(* f"{value_col}_lag_{lag}" *)
LagCol(k) == <<"target", "lag", ToString(k)>>

as_frame(df) ==
    [i \in 1..Len(df) |->
        (DatetimeCol :> df[i].datetime) @@ (TargetName :> df[i].target)]

Column(df, c) == [i \in 1..Len(df) |-> df[i][c]]

(* row[c] = v, overwriting or adding the column *)
SetCol(row, c, v) == (c :> v) @@ row

----------------------------------------------------------------------------
(* create_lag_features, add_time_features *)

shift(col, k) ==
    [i \in 1..Len(col) |->
        IF i - k >= 1 /\ i - k <= Len(col) THEN col[i - k] ELSE NaN]

RECURSIVE create_lag_features(_, _)
create_lag_features(df, lagseq) ==
    IF lagseq = <<>> THEN df
    ELSE LET done == create_lag_features(df, SubSeq(lagseq, 1, Len(lagseq) - 1))
             k    == lagseq[Len(lagseq)]
             col  == shift(Column(done, TargetName), k)
         IN [i \in 1..Len(done) |-> SetCol(done[i], LagCol(k), col[i])]

(* 1000 * sin(2 pi h / 24), rounded, for h = 0..23 *)
SinTable ==
    <<0, 259, 500, 707, 866, 966, 1000, 966, 866, 707, 500, 259,
      0, -259, -500, -707, -866, -966, -1000, -966, -866, -707, -500, -259>>

hour_sin(h) == SinTable[h + 1]
hour_cos(h) == SinTable[((h + 6) % HoursPerDay) + 1]

(* Calendar fields of a timestamp. The epoch, 1970-01-01T00:00Z, is a       *)
(* Thursday (dayofweek 3); every modelled timestamp lies in January 1970.   *)
hour_of(t) == (t \div Hour) % HoursPerDay
day_of(t) == t \div (HoursPerDay * Hour)
dayofweek_of(t) == (day_of(t) + 3) % 7
month_of(t) == 1
dayofyear_of(t) == day_of(t) + 1

add_time_features(df) ==
    [i \in 1..Len(df) |->
        LET t == df[i][DatetimeCol]
        IN (HourCol :> hour_of(t))
           @@ (DayOfWeekCol :> dayofweek_of(t))
           @@ (MonthCol :> month_of(t))
           @@ (DayOfYearCol :> dayofyear_of(t))
           @@ (IsWeekendCol :> IF dayofweek_of(t) \in {5, 6} THEN 1 ELSE 0)
           @@ (HourSinCol :> hour_sin(hour_of(t)))
           @@ (HourCosCol :> hour_cos(hour_of(t)))
           @@ df[i]]

----------------------------------------------------------------------------
(* build_features_pipeline *)

RECURSIVE SortedSeq(_)
SortedSeq(S) ==
    IF S = {} THEN <<>> ELSE Append(SortedSeq(S \ {Max(S)}), Max(S))

LogRecord(level, event, arg) == [level |-> level, event |-> event, arg |-> arg]

(* The while loop: pop the largest lag until enough rows remain. *)
RECURSIVE trim_largest_strict(_, _, _, _)
trim_largest_strict(valid, n_rows, min_rows, lg) ==
    IF valid = <<>> THEN [valid_lags |-> valid, log |-> lg]
    ELSE IF (n_rows - Max(Range(valid))) > min_rows
         THEN [valid_lags |-> valid, log |-> lg]
         ELSE trim_largest_strict(SubSeq(valid, 1, Len(valid) - 1), n_rows, min_rows,
                  Append(lg, LogRecord("WARNING", "trimmed_lag", valid[Len(valid)])))

RECURSIVE trim_largest_silent(_, _, _, _)
trim_largest_silent(valid, n_rows, min_rows, lg) ==
    IF valid = <<>> THEN [valid_lags |-> valid, log |-> lg]
    ELSE IF (n_rows - Max(Range(valid))) >= min_rows
         THEN [valid_lags |-> valid, log |-> lg]
         ELSE trim_largest_silent(SubSeq(valid, 1, Len(valid) - 1), n_rows, min_rows, lg)

RECURSIVE trim_largest(_, _, _, _)
trim_largest(valid, n_rows, min_rows, lg) ==
    IF valid = <<>> THEN [valid_lags |-> valid, log |-> lg]
    ELSE IF (n_rows - Max(Range(valid))) >= min_rows
         THEN [valid_lags |-> valid, log |-> lg]
         ELSE trim_largest(SubSeq(valid, 1, Len(valid) - 1), n_rows, min_rows,
                  Append(lg, LogRecord("WARNING", "trimmed_lag", valid[Len(valid)])))

fallback == <<1, DefaultLagDay>>

(* Lines 169-187: the lags finally used and the records logged on the way. *)
choose_valid_lags(requested, n_rows, min_rows) ==
    LET requested_lags == SortedSeq(requested)
        filtered == SelectSeq(requested_lags, LAMBDA lag : lag < n_rows)
        trimmed  == trim_largest(filtered, n_rows, min_rows, <<>>)
        chosen   ==
            IF trimmed.valid_lags = <<>>
            THEN [valid_lags |-> SelectSeq(fallback, LAMBDA lag : lag < n_rows),
                  log |-> Append(trimmed.log,
                                 LogRecord("WARNING", "fallback_lags", 0))]
            ELSE trimmed
    IN [valid_lags |-> chosen.valid_lags,
        log |-> Append(chosen.log,
                       LogRecord("INFO", "using_valid_lags", chosen.valid_lags))]

(* Lines 193-200: drop the first max_lag rows. *)
drop_first_rows_by_min(df, used) ==
    IF used # <<>> /\ Len(df) > Min(Range(used))
    THEN SubSeq(df, Min(Range(used)) + 1, Len(df))
    ELSE df

drop_first_rows(df, used) ==
    IF used # <<>> /\ Len(df) > Max(Range(used))
    THEN SubSeq(df, Max(Range(used)) + 1, Len(df))
    ELSE df

drop_log(df, used) ==
    IF used # <<>> /\ Len(df) > Max(Range(used))
    THEN <<LogRecord("INFO", "dropped_first_rows", Max(Range(used)))>>
    ELSE <<>>

build_features_pipeline_error(raw_df, fill_method) ==
    IF ensure_hourly_index_error(raw_df, fill_method) # "none"
    THEN ensure_hourly_index_error(raw_df, fill_method)
    ELSE IF Len(ensure_hourly_index(raw_df, fill_method)) <= 0 THEN "ValueError"
    ELSE "none"

(* Rolling-window columns (create_rolling_features) are real-valued         *)
(* statistics of the target; they add columns to each row and change        *)
(* neither the rows nor the other columns, and are not carried here.        *)
build_features(grid, used) ==
    drop_first_rows(add_time_features(create_lag_features(as_frame(grid), used)), used)

----------------------------------------------------------------------------
(* Specification of one call of build_features_pipeline *)

(* n hourly points starting at the epoch *)
HourlyRaw(n) == [i \in 1..n |-> [datetime |-> (i - 1) * Hour,
                                 target |-> ValueAt((i - 1) * Hour)]]

PipelineInputs == {HourlyRaw(n) : n \in 0..MaxRows} \cup {ScenarioRaw}

LagPool == (1..MaxSmallLag) \cup {DefaultLagDay, DefaultLagWeek}

PipeInit ==
    /\ pc = "pipe_call"
    /\ err = "none"
    /\ RunIdle
    /\ SplitIdle
    /\ ForecastIdle
    /\ raw \in PipelineInputs
    /\ method_fill \in FillMethods \cup {"other"}
    /\ ensured = <<>>
    /\ lags \in SUBSET LagPool
    /\ min_train_rows \in (0..MaxMinTrain) \cup {DefaultMinTrainRows}
    /\ valid_lags = <<>>
    /\ feat = <<>>
    /\ log = <<>>

BuildFeaturesPipelineRaise ==
    /\ pc = "pipe_call"
    /\ build_features_pipeline_error(raw, method_fill) # "none"
    /\ pc' = "pipe_raised"
    /\ err' = build_features_pipeline_error(raw, method_fill)
    /\ UNCHANGED <<runVars, gridVars, splitVars, pipeVars, fcVars>>

BuildFeaturesPipeline ==
    /\ pc = "pipe_call"
    /\ build_features_pipeline_error(raw, method_fill) = "none"
    /\ LET grid   == ensure_hourly_index(raw, method_fill)
           chosen == choose_valid_lags(lags, Len(grid), min_train_rows)
       IN /\ ensured' = grid
          /\ valid_lags' = chosen.valid_lags
          /\ feat' = build_features(grid, chosen.valid_lags)
          /\ log' = log \o chosen.log \o drop_log(grid, chosen.valid_lags)
    /\ pc' = "pipe_done"
    /\ UNCHANGED <<runVars, err, raw, method_fill, splitVars, fcVars, lags, min_train_rows>>

PipeNext == BuildFeaturesPipeline \/ BuildFeaturesPipelineRaise

SpecPipe == PipeInit /\ [][PipeNext]_vars

----------------------------------------------------------------------------
(* Properties of build_features_pipeline *)

MaxLagUsed == IF valid_lags = <<>> THEN 0 ELSE Max(Range(valid_lags))

GridTargetAt(t) == (CHOOSE r \in Range(ensured) : r.datetime = t).target

(* C4: the returned table has exactly n_rows - max(valid_lags) rows (n_rows *)
(* when no lag is used), and every lag column of every returned row holds   *)
(* the target of a grid row that exists, the one lag hours before the row;  *)
(* lags=[1,24,168], n_rows=50, min_train_rows=48 gives 49 rows.             *)
TrimmedRowCount ==
    (pc = "pipe_done") =>
        /\ Len(feat) = Len(ensured) - MaxLagUsed
        /\ \A i \in 1..Len(feat) : \A j \in 1..Len(valid_lags) :
              LET t == feat[i][DatetimeCol] - valid_lags[j] * Hour
              IN /\ LagCol(valid_lags[j]) \in DOMAIN feat[i]
                 /\ t >= ensured[1].datetime
                 /\ feat[i][LagCol(valid_lags[j])] = GridTargetAt(t)
        /\ (/\ lags = {1, DefaultLagDay, DefaultLagWeek}
            /\ Len(ensured) = ScenarioHours
            /\ min_train_rows = DefaultMinTrainRows) => Len(feat) = ScenarioHours - 1

TrimmedRowCountWitness ==
    /\ pc = "pipe_done"
    /\ Len(valid_lags) >= 2
    /\ Len(valid_lags) < Cardinality(lags)
    /\ MaxLagUsed >= 2
    /\ Len(feat) >= 2
    /\ Len(feat) = Len(ensured) - MaxLagUsed

(* The lag selection as the specification words it: the requested lags      *)
(* sorted ascending, the largest dropped while (n_rows - largest) is below  *)
(* min_train_rows, and {1,24} restricted to lags < n_rows if none remain.   *)
RECURSIVE DropLargestWhileShort(_, _, _)
DropLargestWhileShort(sorted, n_rows, min_rows) ==
    IF sorted # <<>> /\ (n_rows - sorted[Len(sorted)]) < min_rows
    THEN DropLargestWhileShort(SubSeq(sorted, 1, Len(sorted) - 1), n_rows, min_rows)
    ELSE sorted

SpecifiedLags(start, n_rows, min_rows) ==
    LET kept == DropLargestWhileShort(SortedSeq(start), n_rows, min_rows)
    IN IF kept # <<>> THEN kept
       ELSE SortedSeq({k \in {1, DefaultLagDay} : k < n_rows})

(* C5, as claimed: the lags used are the result of the specified algorithm  *)
(* started from all the requested lags.                                     *)
LagSelectionAsSpecified ==
    (pc = "pipe_done") =>
        valid_lags = SpecifiedLags(lags, Len(ensured), min_train_rows)

(* C5, amended: the lags used are the result of the specified algorithm     *)
(* started from the requested lags that are smaller than n_rows;            *)
(* lags=[1,24,168], n_rows=50, min_train_rows=48 yields [1].                *)
LagSelectionFromFittingLags ==
    (pc = "pipe_done") =>
        /\ valid_lags = SpecifiedLags({k \in lags : k < Len(ensured)},
                                      Len(ensured), min_train_rows)
        /\ (/\ lags = {1, DefaultLagDay, DefaultLagWeek}
            /\ Len(ensured) = ScenarioHours
            /\ min_train_rows = DefaultMinTrainRows) => valid_lags = <<1>>

LagSelectionWitness ==
    /\ pc = "pipe_done"
    /\ lags = {1, DefaultLagDay, DefaultLagWeek}
    /\ Len(ensured) = ScenarioHours
    /\ min_train_rows = DefaultMinTrainRows
    /\ valid_lags = <<1>>
    /\ \E i \in 1..Len(log) : log[i].event = "trimmed_lag" /\ log[i].arg = DefaultLagDay

(* C6: after the first max_lag rows are dropped at least min_train_rows     *)
(* rows remain in the returned table, for every requested lag set, the      *)
(* {1,24} fallback included. Stated on the grids that have at least         *)
(* min_train_rows rows, where some choice of lags keeps that many.          *)
MinTrainRowsRemain ==
    (pc = "pipe_done" /\ Len(ensured) >= min_train_rows) =>
        Len(feat) >= min_train_rows

Warned(event) ==
    \E i \in 1..Len(log) : log[i].level = "WARNING" /\ log[i].event = event

WarnedLag(k) ==
    \E i \in 1..Len(log) :
        log[i].level = "WARNING" /\ log[i].event = "trimmed_lag" /\ log[i].arg = k

(* C15, as claimed: whenever the lags used differ from the requested ones   *)
(* a warning is logged during the run.                                      *)
LagChangeWarned ==
    (pc = "pipe_done" /\ Range(valid_lags) # lags) =>
        \E i \in 1..Len(log) : log[i].level = "WARNING"

(* C15, amended: the run continues and logs a warning naming each lag it    *)
(* removes to satisfy min_train_rows, and a warning when it applies the     *)
(* {1,24} fallback, and no other warning; a requested lag that is >= n_rows *)
(* is dropped without a warning, and shows only in the INFO record of the   *)
(* lags used, which every run logs.                                         *)
LagTrimmingWarned ==
    (pc = "pipe_done") =>
        LET n_rows   == Len(ensured)
            fitting  == {k \in lags : k < n_rows}
            trimmed  == {k \in fitting : n_rows - k < min_train_rows}
        IN /\ err = "none"
           /\ \A k \in trimmed : WarnedLag(k)
           /\ \A k \in lags \ trimmed : ~WarnedLag(k)
           /\ Warned("fallback_lags") <=> (fitting = trimmed)
           /\ \A i \in 1..Len(log) :
                 log[i].level = "WARNING" =>
                     log[i].event \in {"trimmed_lag", "fallback_lags"}
           /\ \E i \in 1..Len(log) :
                 /\ log[i].level = "INFO"
                 /\ log[i].event = "using_valid_lags"
                 /\ log[i].arg = valid_lags

LagTrimmingWarnedWitness ==
    /\ pc = "pipe_done"
    /\ \E k \in lags : k >= Len(ensured)
    /\ \E k \in lags : k < Len(ensured) /\ WarnedLag(k)
    /\ ~Warned("fallback_lags")
    /\ valid_lags # <<>>
    /\ Range(valid_lags) # lags

----------------------------------------------------------------------------
(* make_recursive_forecast *)

(* int(token): the decimal numerals of the lags and windows in use *)
IntTokens == [n \in 0..DefaultLagWeek |-> ToString(n)]

parse_int(tok) ==
    IF \E n \in DOMAIN IntTokens : IntTokens[n] = tok
    THEN CHOOSE n \in DOMAIN IntTokens : IntTokens[n] = tok
    ELSE Unparsable

(* int(c.split("_")[-1]), 999999 when that is no number *)
lag_num(c) == parse_int(c[Len(c)])

(* c.startswith("target_lag_") *)
starts_with_lag_prefix(c) == Len(c) >= 3 /\ c[1] = "target" /\ c[2] = "lag"

RECURSIVE InsertByLagNum(_, _)
InsertByLagNum(sorted, c) ==
    IF sorted = <<>> THEN <<c>>
    ELSE IF lag_num(sorted[Len(sorted)]) <= lag_num(c)
         THEN Append(sorted, c)
         ELSE Append(InsertByLagNum(SubSeq(sorted, 1, Len(sorted) - 1), c),
                     sorted[Len(sorted)])

RECURSIVE SortByLagNum(_)
SortByLagNum(cols) ==
    IF cols = <<>> THEN <<>>
    ELSE InsertByLagNum(SortByLagNum(SubSeq(cols, 1, Len(cols) - 1)), cols[Len(cols)])

parse_lag_cols(cols) == SortByLagNum(SelectSeq(cols, starts_with_lag_prefix))

(* Lines 67-71: the working copy, with every missing feature column as NaN *)
working_copy(row, cols) ==
    [c \in (DOMAIN row) \cup Range(cols) |-> IF c \in DOMAIN row THEN row[c] ELSE NaN]

fillna_skipped(v) == v

fillna0(v) == IF v = NaN THEN 0 ELSE v

(* Line 85: the single-row frame handed to predict, in feature_cols order *)
feature_vector(row, cols) == [i \in 1..Len(cols) |-> fillna0(row[cols[i]])]

RECURSIVE SumSeq(_)
SumSeq(q) == IF q = <<>> THEN 0 ELSE q[Len(q)] + SumSeq(SubSeq(q, 1, Len(q) - 1))

(* The estimator is external: one that always answers est.c, and one whose  *)
(* answer depends on every feature. Either may raise est.exc at call        *)
(* est.fail_at.                                                             *)
predict_raises(est, callno) == est.fail_at = callno

(* Line 86: model.predict is called outside any try block, so what it       *)
(* raises is what leaves make_recursive_forecast.                           *)
raised_as_forecast_error(est) == "ForecastError"

raised_by_predict(est) == est.exc

predict(est, X) ==
    IF est.kind = "const" THEN est.c ELSE SumSeq(X) % 50

(* Lines 90-107: the lag update of one step *)
update_lags_by_position(row, lcols, y_pred) ==
    [c \in DOMAIN row |->
        IF c \notin Range(lcols) THEN row[c]
        ELSE LET j == CHOOSE i \in 1..Len(lcols) : lcols[i] = c
             IN IF j = 1 THEN y_pred ELSE row[lcols[j - 1]]]

update_lags_drop_prediction(row, lcols, y_pred) ==
    LET keys == {lag_num(c) : c \in Range(lcols)}
        cur_lags == [k \in keys |->
                        row[lcols[Max({i \in 1..Len(lcols) : lag_num(lcols[i]) = k})]]]
        new_lags == [k \in keys |->
                        IF (k - 1) \in keys THEN cur_lags[k - 1] ELSE NaN]
    IN [c \in DOMAIN row |->
            IF c \in Range(lcols) THEN new_lags[lag_num(c)] ELSE row[c]]

update_lags(row, lcols, y_pred) ==
    LET keys == {lag_num(c) : c \in Range(lcols)}
        cur_lags == [k \in keys |->
                        row[lcols[Max({i \in 1..Len(lcols) : lag_num(lcols[i]) = k})]]]
        new_lags == [k \in keys |->
                        IF k = 1 THEN y_pred
                        ELSE IF (k - 1) \in keys THEN cur_lags[k - 1] ELSE NaN]
    IN [c \in DOMAIN row |->
            IF c \in Range(lcols) THEN new_lags[lag_num(c)] ELSE row[c]]

(* Lines 109-116: the calendar update of one step *)
hour_update_raises(row) == HourCol \in DOMAIN row /\ row[HourCol] = NaN

next_hour(h) == (h + 1) % HoursPerDay

update_hour_and_weekday(row) ==
    IF HourCol \notin DOMAIN row THEN row
    ELSE LET h == next_hour(row[HourCol])
         IN [c \in DOMAIN row |->
                IF c = HourCol THEN h
                ELSE IF c = HourSinCol THEN hour_sin(h)
                ELSE IF c = HourCosCol THEN hour_cos(h)
                ELSE IF c = DayOfWeekCol /\ h = 0 THEN (row[c] + 1) % 7
                ELSE row[c]]

update_hour(row) ==
    IF HourCol \notin DOMAIN row THEN row
    ELSE LET h == next_hour(row[HourCol])
         IN [c \in DOMAIN row |->
                IF c = HourCol THEN h
                ELSE IF c = HourSinCol THEN hour_sin(h)
                ELSE IF c = HourCosCol THEN hour_cos(h)
                ELSE row[c]]

(* Lines 118-123: the returned frame *)
forecast_rows_from_zero(ps) ==
    [i \in 1..Len(ps) |-> [step |-> i - 1, target |-> NaN, prediction |-> ps[i]]]

forecast_rows(ps) ==
    [i \in 1..Len(ps) |-> [step |-> i, target |-> NaN, prediction |-> ps[i]]]

----------------------------------------------------------------------------
(* Specification of one call of make_recursive_forecast *)

ForecastLagPool == (1..MaxForecastSmallLag) \cup {DefaultLagDay, DefaultLagWeek}

RollCol == <<"target", "roll", "mean", "24">>

TimeCols == <<HourCol, DayOfWeekCol, MonthCol, DayOfYearCol, IsWeekendCol,
              HourSinCol, HourCosCol>>

RECURSIVE LagColsOf(_)
LagColsOf(lagseq) ==
    IF lagseq = <<>> THEN <<>>
    ELSE Append(LagColsOf(SubSeq(lagseq, 1, Len(lagseq) - 1)), LagCol(lagseq[Len(lagseq)]))

Reverse(q) == [i \in 1..Len(q) |-> q[Len(q) + 1 - i]]

(* The feature columns of a table built with the lags L: lag columns (in    *)
(* either order), a rolling column, the calendar columns.                   *)
FeatureCols(L, order) ==
    (IF order = "asc" THEN LagColsOf(SortedSeq(L)) ELSE Reverse(LagColsOf(SortedSeq(L))))
    \o <<RollCol>> \o TimeCols

(* The anchor row at hour h of the first Thursday: lag_k holds 100 + k. *)
AnchorRow(L, h) ==
    [c \in {LagCol(k) : k \in L} \cup {RollCol, DatetimeCol} \cup Range(TimeCols) |->
        IF c = DatetimeCol THEN h * Hour
        ELSE IF c = RollCol THEN 55
        ELSE IF c = HourCol THEN h
        ELSE IF c = HourSinCol THEN hour_sin(h)
        ELSE IF c = HourCosCol THEN hour_cos(h)
        ELSE IF c = DayOfWeekCol THEN 3
        ELSE IF c = MonthCol THEN 1
        ELSE IF c = DayOfYearCol THEN 1
        ELSE IF c = IsWeekendCol THEN 0
        ELSE 100 + lag_num(c)]

NoCol == <<>>

(* Every lag set at the hours around midnight, in either column order, and  *)
(* the default lag set at every hour of the day.                            *)
AnchorChoices ==
    {[L |-> L, h |-> h, order |-> o] :
        L \in SUBSET ForecastLagPool, h \in {HoursPerDay - 2, HoursPerDay - 1},
        o \in {"asc", "desc"}}
    \cup
    {[L |-> {1, DefaultLagDay, DefaultLagWeek}, h |-> h, order |-> "asc"] :
        h \in 0..(HoursPerDay - 1)}

Without(row, c) == [d \in (DOMAIN row) \ {c} |-> row[d]]

(* An estimator that never fails, one that is not fitted and fails at the   *)
(* first call, and one that fails at a later call.                          *)
Failures ==
    {[fail_at |-> 0, exc |-> "none"],
     [fail_at |-> 1, exc |-> "NotFittedError"],
     [fail_at |-> MaxHorizon, exc |-> "ValueError"]}

Estimators ==
    {[kind |-> k, c |-> 7, fail_at |-> f.fail_at, exc |-> f.exc] :
        k \in {"const", "sum"}, f \in Failures}

ForecastInit ==
    /\ pc = "fc_call"
    /\ err = "none"
    /\ RunIdle
    /\ GridIdle
    /\ SplitIdle
    /\ PipeIdle
    /\ estimator \in Estimators
    /\ horizon \in (0..MaxHorizon) \cup {DefaultHorizon}
    /\ \E a \in AnchorChoices :
          /\ feature_cols = FeatureCols(a.L, a.order)
          /\ \E absent \in {NoCol, HourCol, LagCol(Min(a.L \cup {DefaultLagWeek}))} :
                last_features_row = Without(AnchorRow(a.L, a.h), absent)
    /\ cur = <<>>
    /\ lag_cols = <<>>
    /\ step = 0
    /\ preds = <<>>
    /\ calls = <<>>
    /\ out = <<>>

ForecastSetup ==
    /\ pc = "fc_call"
    /\ pc' = "fc_loop"
    /\ cur' = working_copy(last_features_row, feature_cols)
    /\ lag_cols' = parse_lag_cols(feature_cols)
    /\ UNCHANGED <<runVars, err, gridVars, splitVars, pipeVars, estimator, last_features_row,
                   feature_cols, horizon, step, preds, calls, out>>

(* What one iteration computes from the current state: the vector handed   *)
(* to predict, the prediction, and the row after the lag update.           *)
Iteration ==
    LET X_df   == feature_vector(cur, feature_cols)
        y_pred == predict(estimator, X_df)
    IN [X_df   |-> X_df,
        y_pred |-> y_pred,
        lagged |-> IF lag_cols # <<>> THEN update_lags(cur, lag_cols, y_pred) ELSE cur]

LoopContinues == pc = "fc_loop" /\ step < horizon

LoopEnds == pc = "fc_loop" /\ step >= horizon

IterationCompletes ==
    /\ LoopContinues
    /\ ~predict_raises(estimator, step + 1)
    /\ ~hour_update_raises(Iteration.lagged)

(* One iteration of the loop that completes. *)
ForecastStep ==
    /\ IterationCompletes
    /\ calls' = Append(calls, [X |-> Iteration.X_df, y |-> Iteration.y_pred])
    /\ preds' = Append(preds, Iteration.y_pred)
    /\ cur' = update_hour(Iteration.lagged)
    /\ step' = step + 1
    /\ UNCHANGED <<runVars, pc, err, gridVars, splitVars, pipeVars, estimator, last_features_row,
                   feature_cols, horizon, lag_cols, out>>

(* predict raises: the exception leaves the function. *)
ForecastPredictRaises ==
    /\ LoopContinues
    /\ predict_raises(estimator, step + 1)
    /\ calls' = Append(calls, [X |-> Iteration.X_df, y |-> NaN])
    /\ pc' = "fc_raised"
    /\ err' = raised_by_predict(estimator)
    /\ UNCHANGED <<runVars, gridVars, splitVars, pipeVars, estimator, last_features_row,
                   feature_cols, horizon, cur, lag_cols, step, preds, out>>

(* int(cur["hour"]) on a missing hour raises after the prediction is made. *)
ForecastHourRaises ==
    /\ LoopContinues
    /\ ~predict_raises(estimator, step + 1)
    /\ hour_update_raises(Iteration.lagged)
    /\ calls' = Append(calls, [X |-> Iteration.X_df, y |-> Iteration.y_pred])
    /\ preds' = Append(preds, Iteration.y_pred)
    /\ cur' = Iteration.lagged
    /\ pc' = "fc_raised"
    /\ err' = "ValueError"
    /\ UNCHANGED <<runVars, gridVars, splitVars, pipeVars, estimator, last_features_row,
                   feature_cols, horizon, lag_cols, step, out>>

ForecastReturn ==
    /\ LoopEnds
    /\ out' = forecast_rows(preds)
    /\ pc' = "fc_done"
    /\ UNCHANGED <<runVars, err, gridVars, splitVars, pipeVars, estimator, last_features_row,
                   feature_cols, horizon, cur, lag_cols, step, preds, calls>>

ForecastNext ==
    \/ ForecastSetup
    \/ ForecastStep
    \/ ForecastPredictRaises
    \/ ForecastHourRaises
    \/ ForecastReturn

SpecForecast == ForecastInit /\ [][ForecastNext]_vars

----------------------------------------------------------------------------
(* Properties of make_recursive_forecast *)

ConfiguredLags == {k \in ForecastLagPool : LagCol(k) \in Range(feature_cols)}

ColumnPosition(c) == CHOOSE i \in 1..Len(feature_cols) : feature_cols[i] = c

NeverFails ==
    /\ estimator.fail_at = 0
    /\ HourCol \in DOMAIN last_features_row

ForecastReturned ==
    /\ Len(calls) = horizon
    /\ Len(out) = horizon
    /\ \A i \in 1..Len(out) :
          /\ out[i].step = i
          /\ out[i].prediction = calls[i].y
          /\ estimator.kind = "const" => out[i].prediction = estimator.c

LagCascadeByPosition ==
    [][ForecastStep =>
        \A k \in ConfiguredLags :
            (k # Min(ConfiguredLags)) =>
                cur'[LagCol(k)] = cur[LagCol(Max({j \in ConfiguredLags : j < k}))]]_vars

(* C8, amended: at each step every lag column other than the smallest, of   *)
(* offset k, receives the previous value of the column of offset k - 1 when *)
(* that offset is configured and a missing value when it is not; with       *)
(* {1,24,168} lag_24 and lag_168 become missing.                            *)
LagShiftByOffset ==
    [][ForecastStep =>
        \A k \in ConfiguredLags :
            (k # Min(ConfiguredLags)) =>
                cur'[LagCol(k)] = IF (k - 1) \in ConfiguredLags
                                  THEN cur[LagCol(k - 1)]
                                  ELSE NaN]_vars

LagShiftByOffsetWitness ==
    /\ pc = "fc_loop"
    /\ step = 1
    /\ ConfiguredLags = {1, DefaultLagDay, DefaultLagWeek}
    /\ LagCol(DefaultLagDay) \in DOMAIN last_features_row
    /\ last_features_row[LagCol(DefaultLagDay)] # NaN
    /\ last_features_row[LagCol(1)] # NaN
    /\ cur[LagCol(DefaultLagDay)] = NaN
    /\ cur[LagCol(DefaultLagWeek)] = NaN

StepTaken == pc \in {"fc_loop", "fc_done", "fc_raised"} /\ Len(preds) >= 1

(* C9, as claimed: after the lag update of step i the lag column of the     *)
(* smallest configured offset holds that step's prediction, whatever that   *)
(* offset is, and the next feature vector carries it in that column.        *)
SmallestLagHoldsPrediction ==
    (StepTaken /\ ConfiguredLags # {}) =>
        /\ cur[LagCol(Min(ConfiguredLags))] = preds[Len(preds)]
        /\ \A i \in 1..(Len(calls) - 1) :
              calls[i + 1].X[ColumnPosition(LagCol(Min(ConfiguredLags)))] = calls[i].y

(* C9, amended: when offset 1 is configured, after the lag update of step i *)
(* the lag_1 column holds that step's prediction and the next feature       *)
(* vector carries it in that column; when the smallest configured offset is *)
(* not 1 its column is set to missing instead (passed to predict as 0).     *)
LagOneHoldsPrediction ==
    (StepTaken /\ ConfiguredLags # {}) =>
        IF 1 \in ConfiguredLags
        THEN /\ cur[LagCol(1)] = preds[Len(preds)]
             /\ \A i \in 1..(Len(calls) - 1) :
                   calls[i + 1].X[ColumnPosition(LagCol(1))] = calls[i].y
        ELSE /\ cur[LagCol(Min(ConfiguredLags))] = NaN
             /\ \A i \in 1..(Len(calls) - 1) :
                   calls[i + 1].X[ColumnPosition(LagCol(Min(ConfiguredLags)))] = 0

LagOneHoldsPredictionWitness ==
    /\ pc = "fc_loop"
    /\ Len(calls) >= 2
    /\ 1 \in ConfiguredLags
    /\ estimator.kind = "sum"
    /\ calls[1].y # calls[2].y
    /\ cur[LagCol(1)] = calls[2].y
    /\ calls[2].X[ColumnPosition(LagCol(1))] = calls[1].y

FrameCols == {DayOfWeekCol, MonthCol, DayOfYearCol, IsWeekendCol, RollCol}

(* C10: each step sets hour to (hour + 1) mod 24, so after i steps hour is  *)
(* (anchor hour + i) mod 24, within 0..23, with hour_sin and hour_cos those *)
(* of the new hour; dayofweek, month, dayofyear, is_weekend and the rolling *)
(* columns keep their anchor values, also across the wrap from 23 to 0.     *)
HourAdvancesAlone ==
    (/\ pc \in {"fc_loop", "fc_done", "fc_raised"}
     /\ HourCol \in DOMAIN last_features_row) =>
        /\ cur[HourCol] = (last_features_row[HourCol] + step) % 24
        /\ cur[HourCol] \in 0..23
        /\ cur[HourSinCol] = SinTable[cur[HourCol] + 1]
        /\ cur[HourCosCol] = SinTable[((cur[HourCol] + 6) % 24) + 1]
        /\ \A c \in FrameCols : cur[c] = last_features_row[c]

HourAdvancesAloneWitness ==
    /\ pc = "fc_loop"
    /\ step >= 2
    /\ HourCol \in DOMAIN last_features_row
    /\ last_features_row[HourCol] = 23
    /\ cur[HourCol] = step - 1
    /\ cur[DayOfWeekCol] = last_features_row[DayOfWeekCol]

(* The call ended because predict raised: the failing call is the last one *)
PredictFailed == pc = "fc_raised" /\ Len(calls) = estimator.fail_at

AbortedAtFailingCall ==
    /\ (estimator.fail_at >= 1) => Len(calls) <= estimator.fail_at
    /\ (pc = "fc_done") => estimator.fail_at \notin 1..horizon
    /\ PredictFailed =>
          /\ step = estimator.fail_at - 1
          /\ Len(preds) = estimator.fail_at - 1
          /\ out = <<>>
          /\ ~ENABLED ForecastNext

(* C13, as claimed: when predict fails at step i the forecast stops at that *)
(* step, makes no further predict call, returns no row, and the failure     *)
(* leaves the function as a ForecastError.                                  *)
FailureRaisedAsForecastError ==
    /\ AbortedAtFailingCall
    /\ PredictFailed => err = "ForecastError"

(* C13, amended: when predict fails at step i the forecast stops at that    *)
(* step, makes no further predict call and returns no row (the i - 1        *)
(* predictions already made are lost); the exception predict raised leaves  *)
(* the function as it is, not wrapped in a ForecastError.                   *)
FailureRaisedUnchanged ==
    /\ AbortedAtFailingCall
    /\ PredictFailed => (err = estimator.exc /\ err # "ForecastError")

FailureRaisedWitness ==
    /\ PredictFailed
    /\ estimator.fail_at >= 2
    /\ horizon > estimator.fail_at
    /\ Len(preds) = estimator.fail_at - 1
    /\ err = "ValueError"
    /\ out = <<>>

(* C14: the vector handed to predict at each step has one entry per column *)
(* of feature_cols, in that order, none of them missing: the entry of a     *)
(* column is its current value, or 0 when that value is missing; so a       *)
(* column absent from the anchor row is passed as 0 at the first step, and  *)
(* a lag column whose offset k > 1 has no configured offset k - 1 is passed *)
(* as 0 from the second step on.                                            *)
FeatureVectorComplete ==
    [][(calls' # calls) =>
        LET X == calls'[Len(calls')].X
        IN /\ Len(calls') = Len(calls) + 1
           /\ Len(X) = Len(feature_cols)
           /\ \A j \in 1..Len(feature_cols) :
                 /\ X[j] # NaN
                 /\ X[j] = IF cur[feature_cols[j]] = NaN THEN 0
                           ELSE cur[feature_cols[j]]
                 /\ (step = 0 /\ feature_cols[j] \notin DOMAIN last_features_row)
                        => X[j] = 0
           /\ \A k \in ConfiguredLags :
                 (step >= 1 /\ k # 1 /\ (k - 1) \notin ConfiguredLags)
                     => X[ColumnPosition(LagCol(k))] = 0]_vars

FeatureVectorWitness ==
    /\ pc = "fc_loop"
    /\ Len(calls) >= 2
    /\ ConfiguredLags = {1, DefaultLagDay, DefaultLagWeek}
    /\ LagCol(1) \notin DOMAIN last_features_row
    /\ calls[1].X[ColumnPosition(LagCol(1))] = 0
    /\ calls[1].X[ColumnPosition(LagCol(DefaultLagDay))] # 0
    /\ calls[2].X[ColumnPosition(LagCol(DefaultLagDay))] = 0
    /\ calls[2].X[ColumnPosition(LagCol(1))] = calls[1].y

----------------------------------------------------------------------------
(* scripts/process_features.py: the hourly view and the feature file *)

(* Mean of the non-missing targets observed within the hour starting at t, *)
(* missing when there is none; truncated to the unit like every value.     *)
bin_mean(df, t) ==
    LET vals == SelectSeq(df, LAMBDA r : floor_to_hour(r.datetime) = t /\ r.target # NaN)
    IN IF vals = <<>> THEN NaN ELSE SumSeq(TargetCol(vals)) \div Len(vals)

(* resample("h").mean(): one row per hour, from the hour of the earliest    *)
(* observation to the hour of the latest.                                   *)
resample_to_hourly(df) ==
    IF df = <<>> THEN <<>>
    ELSE LET idx == date_range(floor_to_hour(Min(Datetimes(df))),
                               floor_to_hour(Max(Datetimes(df))))
         IN [i \in 1..Len(idx) |-> [datetime |-> idx[i], target |-> bin_mean(df, idx[i])]]

(* build_features_pipeline(hourly) with its defaults, and the feature       *)
(* columns of the file in file order (every column but datetime and target).*)
features_file(raw_df) ==
    LET grid == ensure_hourly_index(resample_to_hourly(raw_df), "ffill")
        used == choose_valid_lags({1, DefaultLagDay, DefaultLagWeek}, Len(grid),
                                  DefaultMinTrainRows).valid_lags
    IN [feat |-> build_features(grid, used), cols |-> LagColsOf(used) \o TimeCols]

----------------------------------------------------------------------------
(* build_last_features_for_forecast *)

last_observed(raw_df) == Max(Datetimes(raw_df))

(* Lines 136-144: the feature row at the last complete hour, else the last  *)
(* row of the table in datetime order.                                      *)
anchor_base(raw_df, feat_df) ==
    LET last_complete == floor_to_hour(last_observed(raw_df))
        row == SelectSeq(feat_df, LAMBDA r : r[DatetimeCol] = last_complete)
        latest == Max({feat_df[i][DatetimeCol] : i \in 1..Len(feat_df)})
    IN IF row # <<>> THEN row[1]
       ELSE feat_df[Max({i \in 1..Len(feat_df) : feat_df[i][DatetimeCol] = latest})]

build_last_features_keeping_anchor_time(raw_df, feat_df, cols) ==
    LET base == anchor_base(raw_df, feat_df)
    IN [c \in Range(cols) \cup {DatetimeCol} |->
            IF c = DatetimeCol THEN base[DatetimeCol]
            ELSE IF c \in DOMAIN base THEN base[c] ELSE NaN]

build_last_features_for_forecast(raw_df, feat_df, cols) ==
    LET base == anchor_base(raw_df, feat_df)
    IN [c \in Range(cols) \cup {DatetimeCol} |->
            IF c = DatetimeCol THEN last_observed(raw_df)
            ELSE IF c \in DOMAIN base THEN base[c] ELSE NaN]

----------------------------------------------------------------------------
(* scripts/run_model.py: main *)

ValHoursWeek == 168
MainHorizon == 6

(* The datetime and target columns of a feature table, as rows *)
as_records(feat_df) ==
    [i \in 1..Len(feat_df) |->
        [datetime |-> feat_df[i][DatetimeCol], target |-> feat_df[i][TargetName]]]

(* Line 61: forecast_df["datetime"] = last_observed + i hours, i = 1.. *)
label_datetimes(df, last_obs) ==
    [i \in 1..Len(df) |->
        [datetime |-> last_obs + i * Hour, step |-> df[i].step,
         target |-> df[i].target, prediction |-> df[i].prediction]]

----------------------------------------------------------------------------
(* Specification of one run of main, after process_features has written    *)
(* the raw copy and the feature file of the same series                    *)

MaxRunExtra == 2

(* n hourly observations from the epoch, followed when off > 0 by one more  *)
(* observation off ticks after the last hour; in file order or reversed.    *)
RunRaw(n, off, order) ==
    LET hourly == HourlyRaw(n)
        last   == (n - 1) * Hour + off
        series == IF off = 0 THEN hourly
                  ELSE Append(hourly, [datetime |-> last, target |-> ValueAt(last)])
    IN IF order = "asc" THEN series ELSE Reverse(series)

(* Series too short to leave a training part, and series of a little more   *)
(* than a week and a day, the shortest that do.                             *)
RunHours ==
    (1..MaxRows) \cup {ValHoursWeek + DefaultLagDay + d : d \in 0..MaxRunExtra}

RunInputs ==
    {RunRaw(n, off, o) : n \in RunHours, off \in 0..(Hour - 1), o \in {"asc", "desc"}}

(* train_model returns a fitted estimator: its predict does not fail. *)
FittedEstimators == {e \in Estimators : e.fail_at = 0}

RunInit ==
    /\ pc = "idle"
    /\ err = "none"
    /\ SplitIdle
    /\ ForecastIdle
    /\ raw \in RunInputs
    /\ method_fill = "ffill"
    /\ ensured = <<>>
    /\ lags = {}
    /\ min_train_rows = 0
    /\ valid_lags = <<>>
    /\ feat = features_file(raw).feat
    /\ log = <<>>
    /\ main_pc = "main_loaded"
    /\ forecast_df = <<>>

(* Line 38 *)
MainSplit ==
    /\ main_pc = "main_loaded"
    /\ main_pc' = "main_split"
    /\ val_hours' = ValHoursWeek
    /\ train' = split_train(as_records(feat), ValHoursWeek)
    /\ val' = split_val(as_records(feat), ValHoursWeek)
    /\ UNCHANGED <<pc, err, gridVars, pipeVars, fcVars, table, forecast_df>>

(* Lines 41-42 *)
MainExitNoTrain ==
    /\ main_pc = "main_split"
    /\ train = <<>>
    /\ main_pc' = "main_exit"
    /\ err' = "SystemExit"
    /\ UNCHANGED <<pc, gridVars, splitVars, pipeVars, fcVars, forecast_df>>

(* Lines 32, 44-49 *)
MainTrain ==
    /\ main_pc = "main_split"
    /\ train # <<>>
    /\ main_pc' = "main_trained"
    /\ feature_cols' = features_file(raw).cols
    /\ \E est \in FittedEstimators : estimator' = est
    /\ UNCHANGED <<pc, err, gridVars, splitVars, pipeVars, last_features_row, horizon,
                   cur, lag_cols, step, preds, calls, out, forecast_df>>

(* Lines 52-56: the anchor is built and make_recursive_forecast is called *)
MainForecastCall ==
    /\ main_pc = "main_trained"
    /\ main_pc' = "main_forecast"
    /\ last_features_row' = build_last_features_for_forecast(raw, feat, feature_cols)
    /\ horizon' = MainHorizon
    /\ pc' = "fc_call"
    /\ UNCHANGED <<err, gridVars, splitVars, pipeVars, estimator, feature_cols,
                   cur, lag_cols, step, preds, calls, out, forecast_df>>

(* Lines 59-61, once make_recursive_forecast has returned *)
MainLabel ==
    /\ main_pc = "main_forecast"
    /\ pc = "fc_done"
    /\ main_pc' = "main_done"
    /\ forecast_df' = label_datetimes(out, last_features_row[DatetimeCol])
    /\ UNCHANGED <<pc, err, gridVars, splitVars, pipeVars, fcVars>>

RunNext ==
    \/ MainSplit
    \/ MainExitNoTrain
    \/ MainTrain
    \/ MainForecastCall
    \/ ForecastSetup
    \/ ForecastStep
    \/ ForecastReturn
    \/ MainLabel

SpecRun == RunInit /\ [][RunNext]_vars

----------------------------------------------------------------------------
(* Properties of main *)

AnchorTimestamp == anchor_base(raw, feat)[DatetimeCol]

HourlySteps ==
    /\ Len(forecast_df) = MainHorizon
    /\ \A i \in 1..(Len(forecast_df) - 1) :
          forecast_df[i + 1].datetime = forecast_df[i].datetime + Hour

(* C11, as claimed: the saved forecast table has one row per future hour,   *)
(* its datetimes increase in steps of one hour, and the first one is the    *)
(* timestamp of the anchor feature row plus one hour, also when the last    *)
(* raw observation is off the hour boundary.                                *)
FirstForecastAfterAnchor ==
    (main_pc = "main_done") =>
        /\ HourlySteps
        /\ forecast_df[1].datetime = AnchorTimestamp + Hour

(* C11, amended: the saved forecast table has one row per step, its         *)
(* datetimes increase in steps of one hour, and the first one is the last   *)
(* observed raw timestamp plus one hour; it exceeds the anchor row's        *)
(* timestamp plus one hour by the time the last observation lies past its   *)
(* hour boundary, zero exactly when the observation is on the boundary.     *)
FirstForecastAfterLastObserved ==
    (main_pc = "main_done") =>
        /\ HourlySteps
        /\ forecast_df[1].datetime = last_observed(raw) + Hour
        /\ AnchorTimestamp = floor_to_hour(last_observed(raw))
        /\ forecast_df[1].datetime - (AnchorTimestamp + Hour)
               = last_observed(raw) % Hour

FirstForecastWitness ==
    /\ main_pc = "main_done"
    /\ last_observed(raw) % Hour # 0
    /\ raw[1].datetime = last_observed(raw)
    /\ Len(forecast_df) = MainHorizon
    /\ forecast_df[1].datetime > AnchorTimestamp + Hour

====
